---- MODULE Spec2Model ----
(***************************************************************************)
(* Cache replacement policies of capsa (FIFO, LRU, LFU, OPT, ARC, 2Q) and  *)
(* the Simulator that replays a trace against one policy instance.         *)
(*                                                                         *)
(* An OrderedDict / deque is a sequence whose head is the oldest entry     *)
(* (popitem(last=False), popleft) and whose tail is the newest one.        *)
(***************************************************************************)
EXTENDS Integers, Sequences, FiniteSets, TLC

\* ------------------------------------------------------------------ bounds
MaxLen == 7      \* longest trace replayed
NumKeys == 4     \* number of distinct page ids
MaxCap == 3      \* largest cache size
MaxA1out == 2    \* largest explicit a1out_size argument
MaxTail == 3     \* accesses made after the ARC warm-up trace

Keys == 1..NumKeys

\* The page_id None handed to ARC's _replace by _ensure_space_for_miss.
NoKey == 0

\* -------------------------------------------------- OrderedDict / helpers
Range(s) == {s[i] : i \in 1..Len(s)}

\* d.pop(k, None)
OdPop(s, k) == SelectSeq(s, LAMBDA x : x # k)

\* d[k] = None : a key already present keeps its position
OdSet(s, k) == IF k \in Range(s) THEN s ELSE Append(s, k)

\* d.move_to_end(k)
OdMoveToEnd(s, k) == Append(OdPop(s, k), k)

Max2(a, b) == IF a >= b THEN a ELSE b
Min2(a, b) == IF a <= b THEN a ELSE b

\* What access() hands back: the mutated instance and the returned bool, or
\* the exception that left access() instead of a return value.
Returns(c, hit) == [cache |-> c, hit |-> hit, raised |-> "none"]
Raises(c, e) == [cache |-> c, hit |-> FALSE, raised |-> e]

\* ------------------------------------------------------------ Cache base
\* Cache.__init__ rejecting only negative sizes.
CacheInitAcceptsZero(size) == size < 0

\* Cache.__init__(size) raises ValueError; every policy's __init__ calls it
\* before it sets any field.
CacheInitRaises(size) == size <= 0

\* ------------------------------------------------------------------- FIFO
FIFOCache(size) ==
    [kind |-> "FIFO", size |-> size, queue |-> <<>>, members |-> {},
     hits |-> 0, misses |-> 0]

\* FIFOAccess with the evicted page left in the membership set.
FIFOAccessStaleMember(c, page_id) ==
    IF page_id \in c.members
    THEN Returns([c EXCEPT !.hits = @ + 1], TRUE)
    ELSE LET full == Len(c.queue) >= c.size
             q1 == IF full THEN Tail(c.queue) ELSE c.queue
         IN  Returns([c EXCEPT !.misses = @ + 1,
                               !.queue = Append(q1, page_id),
                               !.members = @ \cup {page_id}], FALSE)

\* FIFOAccess moving a page that is hit to the tail of the queue.
FIFOAccessRequeueOnHit(c, page_id) ==
    IF page_id \in c.members
    THEN Returns([c EXCEPT !.hits = @ + 1,
                           !.queue = OdMoveToEnd(@, page_id)], TRUE)
    ELSE LET full == Len(c.queue) >= c.size
             evicted == Head(c.queue)
             q1 == IF full THEN Tail(c.queue) ELSE c.queue
             m1 == IF full THEN c.members \ {evicted} ELSE c.members
         IN  Returns([c EXCEPT !.misses = @ + 1,
                               !.queue = Append(q1, page_id),
                               !.members = m1 \cup {page_id}], FALSE)

FIFOAccess(c, page_id) ==
    IF page_id \in c.members
    THEN Returns([c EXCEPT !.hits = @ + 1], TRUE)
    ELSE LET full == Len(c.queue) >= c.size
             evicted == Head(c.queue)
             q1 == IF full THEN Tail(c.queue) ELSE c.queue
             m1 == IF full THEN c.members \ {evicted} ELSE c.members
         IN  Returns([c EXCEPT !.misses = @ + 1,
                               !.queue = Append(q1, page_id),
                               !.members = m1 \cup {page_id}], FALSE)

\* -------------------------------------------------------------------- LRU
LRUCache(size) ==
    [kind |-> "LRU", size |-> size, data |-> <<>>, hits |-> 0, misses |-> 0]

\* LRUAccess evicting only once the cache is over its size.
LRUAccessLateEvict(c, page_id) ==
    LET hit == page_id \in Range(c.data)
    IN  IF hit
        THEN Returns([c EXCEPT !.data = OdMoveToEnd(@, page_id),
                               !.hits = @ + 1], hit)
        ELSE LET d1 == IF Len(c.data) > c.size THEN Tail(c.data) ELSE c.data
             IN  Returns([c EXCEPT !.misses = @ + 1,
                                   !.data = OdSet(d1, page_id)], hit)

\* LRUAccess leaving a page that is hit where it is (no move_to_end).
LRUAccessNoPromote(c, page_id) ==
    LET hit == page_id \in Range(c.data)
    IN  IF hit
        THEN Returns([c EXCEPT !.hits = @ + 1], hit)
        ELSE LET d1 == IF Len(c.data) >= c.size THEN Tail(c.data) ELSE c.data
             IN  Returns([c EXCEPT !.misses = @ + 1,
                                   !.data = OdSet(d1, page_id)], hit)

\* LRUAccess evicting one page early, when one slot is still free.
LRUAccessEarlyEvict(c, page_id) ==
    LET hit == page_id \in Range(c.data)
    IN  IF hit
        THEN Returns([c EXCEPT !.data = OdMoveToEnd(@, page_id),
                               !.hits = @ + 1], hit)
        ELSE LET d1 == IF c.data # <<>> /\ Len(c.data) >= c.size - 1
                       THEN Tail(c.data) ELSE c.data
             IN  Returns([c EXCEPT !.misses = @ + 1,
                                   !.data = OdSet(d1, page_id)], hit)

\* LRUAccess moving a page that is hit to the LRU end
\* (move_to_end(page_id, last=False)).
LRUAccessHitToFront(c, page_id) ==
    LET hit == page_id \in Range(c.data)
    IN  IF hit
        THEN Returns([c EXCEPT !.data = <<page_id>> \o OdPop(@, page_id),
                               !.hits = @ + 1], hit)
        ELSE LET d1 == IF Len(c.data) >= c.size THEN Tail(c.data) ELSE c.data
             IN  Returns([c EXCEPT !.misses = @ + 1,
                                   !.data = OdSet(d1, page_id)], hit)

LRUAccess(c, page_id) ==
    LET hit == page_id \in Range(c.data)
    IN  IF hit
        THEN Returns([c EXCEPT !.data = OdMoveToEnd(@, page_id),
                               !.hits = @ + 1], hit)
        ELSE LET d1 == IF Len(c.data) >= c.size THEN Tail(c.data) ELSE c.data
             IN  Returns([c EXCEPT !.misses = @ + 1,
                                   !.data = OdSet(d1, page_id)], hit)

\* -------------------------------------------------------------------- LFU
LFUCache(size) ==
    [kind |-> "LFU", size |-> size, key_freq |-> <<>>, freq_keys |-> <<>>,
     min_freq |-> 0, hits |-> 0, misses |-> 0]

\* dict helpers: a dict is a function on the set of its keys
DictDel(d, k) == [x \in DOMAIN d \ {k} |-> d[x]]
DictSet(d, k, v) == [x \in DOMAIN d \cup {k} |-> IF x = k THEN v ELSE d[x]]

\* freq_keys[f] of a defaultdict(OrderedDict): a missing bucket reads as empty
Bucket(fk, f) == IF f \in DOMAIN fk THEN fk[f] ELSE <<>>

\* _bump leaving min_freq as it is when it empties the min_freq bucket.
LFUBumpStaleMinFreq(c, page_id) ==
    LET freq == c.key_freq[page_id]
        old == OdPop(Bucket(c.freq_keys, freq), page_id)
        fk1 == IF old = <<>> THEN DictDel(c.freq_keys, freq)
                             ELSE DictSet(c.freq_keys, freq, old)
        new_freq == freq + 1
    IN  [c EXCEPT !.key_freq = DictSet(@, page_id, new_freq),
                  !.freq_keys = DictSet(fk1, new_freq,
                                        OdSet(Bucket(fk1, new_freq), page_id))]

\* _bump leaving the page in the bucket of its old frequency as well.
LFUBumpKeepOld(c, page_id) ==
    LET freq == c.key_freq[page_id]
        new_freq == freq + 1
    IN  [c EXCEPT !.key_freq = DictSet(@, page_id, new_freq),
                  !.freq_keys = DictSet(@, new_freq,
                                        OdSet(Bucket(c.freq_keys, new_freq), page_id))]

LFUBump(c, page_id) ==
    LET freq == c.key_freq[page_id]
        old == OdPop(Bucket(c.freq_keys, freq), page_id)
        emptied == old = <<>>
        fk1 == IF emptied THEN DictDel(c.freq_keys, freq)
                          ELSE DictSet(c.freq_keys, freq, old)
        mf1 == IF emptied /\ c.min_freq = freq THEN c.min_freq + 1
                                                ELSE c.min_freq
        new_freq == freq + 1
    IN  [c EXCEPT !.key_freq = DictSet(@, page_id, new_freq),
                  !.freq_keys = DictSet(fk1, new_freq,
                                        OdSet(Bucket(fk1, new_freq), page_id)),
                  !.min_freq = mf1]

\* access evicting the newest page of the min_freq bucket (popitem(last=True)).
LFUAccessPopNewest(c, page_id) ==
    IF page_id \in DOMAIN c.key_freq
    THEN Returns(LFUBump([c EXCEPT !.hits = @ + 1], page_id), TRUE)
    ELSE LET c0 == [c EXCEPT !.misses = @ + 1]
             full == Cardinality(DOMAIN c.key_freq) >= c.size
             lfu_keys == Bucket(c.freq_keys, c.min_freq)
             victim == lfu_keys[Len(lfu_keys)]
             rest == SubSeq(lfu_keys, 1, Len(lfu_keys) - 1)
             fk1 == IF ~full THEN c.freq_keys
                    ELSE IF rest = <<>> THEN DictDel(c.freq_keys, c.min_freq)
                    ELSE DictSet(c.freq_keys, c.min_freq, rest)
             kf1 == IF full THEN DictDel(c.key_freq, victim) ELSE c.key_freq
         IN  IF full /\ lfu_keys = <<>>
             THEN Raises([c0 EXCEPT !.freq_keys =
                              DictSet(@, c.min_freq, <<>>)], "KeyError")
             ELSE Returns([c0 EXCEPT
                      !.key_freq = DictSet(kf1, page_id, 1),
                      !.freq_keys = DictSet(fk1, 1, OdSet(Bucket(fk1, 1), page_id)),
                      !.min_freq = 1], FALSE)

\* access evicting every page of the min_freq bucket at once.
LFUAccessDropBucket(c, page_id) ==
    IF page_id \in DOMAIN c.key_freq
    THEN Returns(LFUBump([c EXCEPT !.hits = @ + 1], page_id), TRUE)
    ELSE LET c0 == [c EXCEPT !.misses = @ + 1]
             full == Cardinality(DOMAIN c.key_freq) >= c.size
             lfu_keys == Bucket(c.freq_keys, c.min_freq)
             fk1 == IF full THEN DictDel(c.freq_keys, c.min_freq) ELSE c.freq_keys
             kf1 == IF full
                    THEN [k \in DOMAIN c.key_freq \ Range(lfu_keys) |-> c.key_freq[k]]
                    ELSE c.key_freq
         IN  Returns([c0 EXCEPT
                  !.key_freq = DictSet(kf1, page_id, 1),
                  !.freq_keys = DictSet(fk1, 1, OdSet(Bucket(fk1, 1), page_id)),
                  !.min_freq = 1], FALSE)

LFUAccess(c, page_id) ==
    IF page_id \in DOMAIN c.key_freq
    THEN Returns(LFUBump([c EXCEPT !.hits = @ + 1], page_id), TRUE)
    ELSE LET c0 == [c EXCEPT !.misses = @ + 1]
             full == Cardinality(DOMAIN c.key_freq) >= c.size
             lfu_keys == Bucket(c.freq_keys, c.min_freq)
             victim == Head(lfu_keys)
             rest == Tail(lfu_keys)
             fk1 == IF ~full THEN c.freq_keys
                    ELSE IF rest = <<>> THEN DictDel(c.freq_keys, c.min_freq)
                    ELSE DictSet(c.freq_keys, c.min_freq, rest)
             kf1 == IF full THEN DictDel(c.key_freq, victim) ELSE c.key_freq
         IN  IF full /\ lfu_keys = <<>>
             THEN \* popitem() on an empty OrderedDict
                  Raises([c0 EXCEPT !.freq_keys =
                              DictSet(@, c.min_freq, <<>>)], "KeyError")
             ELSE Returns([c0 EXCEPT
                      !.key_freq = DictSet(kf1, page_id, 1),
                      !.freq_keys = DictSet(fk1, 1, OdSet(Bucket(fk1, 1), page_id)),
                      !.min_freq = 1], FALSE)

\* -------------------------------------------------------------------- OPT
\* future_positions: page -> deque of the (0-based) indices at which the page
\* occurs; a page the defaultdict has no entry for reads as the empty deque.
OPTPreprocessTrace(trace) ==
    [page \in Keys |->
        SelectSeq([i \in 1..Len(trace) |-> i - 1],
                  LAMBDA index : trace[index + 1] = page)]

\* OPTCache(size, trace): opt_trace is <<>> for trace=None, <<t>> for trace t
OPTCache(size, opt_trace) ==
    [kind |-> "OPT", size |-> size,
     trace_preloaded |-> opt_trace # <<>>,
     future_positions |-> IF opt_trace # <<>>
                          THEN OPTPreprocessTrace(opt_trace[1])
                          ELSE [page \in Keys |-> <<>>],
     cache |-> {}, current_step |-> 0, hits |-> 0, misses |-> 0]

\* _drop_current_reference that never pops the occurrence just consumed.
OPTDropNothing(c, page_id) == c

OPTDropCurrentReference(c, page_id) ==
    LET positions == c.future_positions[page_id]
    IN  IF positions # <<>> /\ Head(positions) = c.current_step
        THEN [c EXCEPT !.future_positions[page_id] = Tail(positions)]
        ELSE c

\* The pages _select_victim can return. The loop walks a set, whose iteration
\* order is not specified: it returns the first page met that has no future
\* position, and only when there is none the page whose next position is the
\* farthest.
\* _select_victim returning whichever resident page the loop meets first.
OPTSelectFirstMet(c) == c.cache

\* _select_victim preferring, among pages that will all be used again, the one
\* whose next position is the nearest.
OPTSelectNearest(c) ==
    LET unused == {page \in c.cache : c.future_positions[page] = <<>>}
    IN  IF unused # {}
        THEN unused
        ELSE {page \in c.cache :
                \A other \in c.cache :
                    Head(c.future_positions[page]) <= Head(c.future_positions[other])}

OPTSelectVictim(c) ==
    LET unused == {page \in c.cache : c.future_positions[page] = <<>>}
    IN  IF unused # {}
        THEN unused
        ELSE {page \in c.cache :
                \A other \in c.cache :
                    Head(c.future_positions[other]) <= Head(c.future_positions[page])}

\* The set of outcomes of access(page_id), one per victim the loop can return.
\* access bypassing the cache for a page the trace never asks for again.
OPTAccessBypass(c, page_id) ==
    LET c1 == OPTDropCurrentReference(c, page_id)
        hit == page_id \in c1.cache
    IN  IF hit
        THEN {Returns([c1 EXCEPT !.hits = @ + 1, !.current_step = @ + 1], hit)}
        ELSE IF c1.future_positions[page_id] = <<>>
        THEN {Returns([c1 EXCEPT !.misses = @ + 1, !.current_step = @ + 1], hit)}
        ELSE IF Cardinality(c1.cache) >= c1.size
        THEN {Returns([c1 EXCEPT !.misses = @ + 1,
                                 !.cache = (@ \ {victim}) \cup {page_id},
                                 !.current_step = @ + 1], hit) :
                 victim \in OPTSelectVictim(c1)}
        ELSE {Returns([c1 EXCEPT !.misses = @ + 1,
                                 !.cache = @ \cup {page_id},
                                 !.current_step = @ + 1], hit)}

OPTAccess(c, page_id) ==
    LET c1 == OPTDropCurrentReference(c, page_id)
        hit == page_id \in c1.cache
    IN  IF hit
        THEN {Returns([c1 EXCEPT !.hits = @ + 1, !.current_step = @ + 1], hit)}
        ELSE IF Cardinality(c1.cache) >= c1.size
        THEN {Returns([c1 EXCEPT !.misses = @ + 1,
                                 !.cache = (@ \ {victim}) \cup {page_id},
                                 !.current_step = @ + 1], hit) :
                 victim \in OPTSelectVictim(c1)}
        ELSE {Returns([c1 EXCEPT !.misses = @ + 1,
                                 !.cache = @ \cup {page_id},
                                 !.current_step = @ + 1], hit)}

\* -------------------------------------------------------------------- ARC
ARCCache(size) ==
    [kind |-> "ARC", size |-> size, T1 |-> <<>>, T2 |-> <<>>, B1 |-> <<>>,
     B2 |-> <<>>, p |-> 0, hits |-> 0, misses |-> 0]

ARCMoveToT2(c, page_id) == [c EXCEPT !.T2 = OdSet(@, page_id)]

\* _replace reading the LRU page of T1 / T2 without popping it.
ARCReplaceNoPop(c, page_id) ==
    IF c.T1 # <<>> /\ (Len(c.T1) > c.p
                        \/ (page_id \in Range(c.B2) /\ Len(c.T1) = c.p))
    THEN LET old == Head(c.T1)
             b1 == OdSet(c.B1, old)
         IN  [c EXCEPT !.B1 = IF Len(b1) > c.size THEN Tail(b1) ELSE b1]
    ELSE IF c.T2 # <<>>
    THEN LET old == Head(c.T2)
             b2 == OdSet(c.B2, old)
         IN  [c EXCEPT !.B2 = IF Len(b2) > c.size THEN Tail(b2) ELSE b2]
    ELSE c

\* _replace without the clause for a candidate found in B2 (T1 is taken only
\* when it is longer than p).
ARCReplaceIgnoreB2(c, page_id) ==
    IF c.T1 # <<>> /\ Len(c.T1) > c.p
    THEN LET old == Head(c.T1)
             b1 == OdSet(c.B1, old)
         IN  [c EXCEPT !.T1 = Tail(@),
                       !.B1 = IF Len(b1) > c.size THEN Tail(b1) ELSE b1]
    ELSE IF c.T2 # <<>>
    THEN LET old == Head(c.T2)
             b2 == OdSet(c.B2, old)
         IN  [c EXCEPT !.T2 = Tail(@),
                       !.B2 = IF Len(b2) > c.size THEN Tail(b2) ELSE b2]
    ELSE c

\* _replace without its else branch: nothing is evicted when T1 is not chosen.
ARCReplaceSkipT2(c, page_id) ==
    IF c.T1 # <<>> /\ (Len(c.T1) > c.p
                        \/ (page_id \in Range(c.B2) /\ Len(c.T1) = c.p))
    THEN LET old == Head(c.T1)
             b1 == OdSet(c.B1, old)
         IN  [c EXCEPT !.T1 = Tail(@),
                       !.B1 = IF Len(b1) > c.size THEN Tail(b1) ELSE b1]
    ELSE c

ARCReplace(c, page_id) ==
    IF c.T1 # <<>> /\ (Len(c.T1) > c.p
                        \/ (page_id \in Range(c.B2) /\ Len(c.T1) = c.p))
    THEN LET old == Head(c.T1)
             b1 == OdSet(c.B1, old)
         IN  [c EXCEPT !.T1 = Tail(@),
                       !.B1 = IF Len(b1) > c.size THEN Tail(b1) ELSE b1]
    ELSE IF c.T2 # <<>>
    THEN LET old == Head(c.T2)
             b2 == OdSet(c.B2, old)
         IN  [c EXCEPT !.T2 = Tail(@),
                       !.B2 = IF Len(b2) > c.size THEN Tail(b2) ELSE b2]
    ELSE c

\* _adapt_p_on_b1_hit always stepping by 1.
ARCAdaptPOnB1HitUnitStep(c) == [c EXCEPT !.p = Min2(c.size, c.p + 1)]

ARCAdaptPOnB1Hit(c) ==
    LET delta == IF c.B1 # <<>> THEN Max2(1, Len(c.B2) \div Len(c.B1)) ELSE 1
    IN  [c EXCEPT !.p = Min2(c.size, c.p + delta)]

\* _adapt_p_on_b2_hit without the floor at 0.
ARCAdaptPOnB2HitNoFloor(c) ==
    LET delta == IF c.B2 # <<>> THEN Max2(1, Len(c.B1) \div Len(c.B2)) ELSE 1
    IN  [c EXCEPT !.p = c.p - delta]

ARCAdaptPOnB2Hit(c) ==
    LET delta == IF c.B2 # <<>> THEN Max2(1, Len(c.B1) \div Len(c.B2)) ELSE 1
    IN  [c EXCEPT !.p = Max2(0, c.p - delta)]

\* _ensure_space_for_miss replacing only once the directory exceeds the size.
ARCEnsureSpaceLate(c) ==
    LET total == Len(c.T1) + Len(c.B1)
        grand_total == total + Len(c.T2) + Len(c.B2)
    IN  IF total = c.size
        THEN IF Len(c.T1) < c.size
             THEN ARCReplace([c EXCEPT !.B1 = Tail(@)], NoKey)
             ELSE [c EXCEPT !.T1 = Tail(@)]
        ELSE IF grand_total > c.size
        THEN ARCReplace(IF grand_total = 2 * c.size /\ c.B2 # <<>>
                        THEN [c EXCEPT !.B2 = Tail(@)] ELSE c, NoKey)
        ELSE c

\* _ensure_space_for_miss replacing only once the directory holds twice the size.
ARCEnsureSpaceAtTwice(c) ==
    LET total == Len(c.T1) + Len(c.B1)
        grand_total == total + Len(c.T2) + Len(c.B2)
    IN  IF total = c.size
        THEN IF Len(c.T1) < c.size
             THEN ARCReplace([c EXCEPT !.B1 = Tail(@)], NoKey)
             ELSE [c EXCEPT !.T1 = Tail(@)]
        ELSE IF grand_total >= 2 * c.size
        THEN ARCReplace(IF c.B2 # <<>> THEN [c EXCEPT !.B2 = Tail(@)] ELSE c, NoKey)
        ELSE c

\* _ensure_space_for_miss recording in B1 the page it pops from a full T1 (the
\* assignment the source has commented out).
ARCEnsureSpaceGhostsT1(c) ==
    LET total == Len(c.T1) + Len(c.B1)
        grand_total == total + Len(c.T2) + Len(c.B2)
    IN  IF total = c.size
        THEN IF Len(c.T1) < c.size
             THEN ARCReplace([c EXCEPT !.B1 = Tail(@)], NoKey)
             ELSE [c EXCEPT !.T1 = Tail(@), !.B1 = OdSet(@, Head(c.T1))]
        ELSE IF grand_total >= c.size
        THEN ARCReplace(IF grand_total = 2 * c.size /\ c.B2 # <<>>
                        THEN [c EXCEPT !.B2 = Tail(@)] ELSE c, NoKey)
        ELSE c

\* _ensure_space_for_miss keeping B1 whole when T1 and B1 together are full.
ARCEnsureSpaceKeepB1(c) ==
    LET total == Len(c.T1) + Len(c.B1)
        grand_total == total + Len(c.T2) + Len(c.B2)
    IN  IF total = c.size
        THEN IF Len(c.T1) < c.size
             THEN ARCReplace(c, NoKey)
             ELSE [c EXCEPT !.T1 = Tail(@)]
        ELSE IF grand_total >= c.size
        THEN ARCReplace(IF grand_total = 2 * c.size /\ c.B2 # <<>>
                        THEN [c EXCEPT !.B2 = Tail(@)] ELSE c, NoKey)
        ELSE c

ARCEnsureSpaceForMiss(c) ==
    LET total == Len(c.T1) + Len(c.B1)
        grand_total == total + Len(c.T2) + Len(c.B2)
    IN  IF total = c.size
        THEN IF Len(c.T1) < c.size
             THEN ARCReplace([c EXCEPT !.B1 = Tail(@)], NoKey)
             ELSE [c EXCEPT !.T1 = Tail(@)]
        ELSE IF grand_total >= c.size
        THEN ARCReplace(IF grand_total = 2 * c.size /\ c.B2 # <<>>
                        THEN [c EXCEPT !.B2 = Tail(@)] ELSE c, NoKey)
        ELSE c

\* access with the hit in T2 left uncounted.
ARCAccessUncountedHit(c, page_id) ==
    IF page_id \in Range(c.T1)
    THEN Returns([ARCMoveToT2([c EXCEPT !.T1 = OdPop(@, page_id)], page_id)
                     EXCEPT !.hits = @ + 1], TRUE)
    ELSE IF page_id \in Range(c.T2)
    THEN Returns(ARCMoveToT2([c EXCEPT !.T2 = OdPop(@, page_id)], page_id), TRUE)
    ELSE LET c0 == [c EXCEPT !.misses = @ + 1]
         IN  IF page_id \in Range(c0.B1)
             THEN LET c1 == ARCReplace(ARCAdaptPOnB1Hit(c0), page_id)
                  IN  Returns(ARCMoveToT2([c1 EXCEPT !.B1 = OdPop(@, page_id)],
                                          page_id), FALSE)
             ELSE IF page_id \in Range(c0.B2)
             THEN LET c1 == ARCReplace(ARCAdaptPOnB2Hit(c0), page_id)
                  IN  Returns(ARCMoveToT2([c1 EXCEPT !.B2 = OdPop(@, page_id)],
                                          page_id), FALSE)
             ELSE LET c1 == ARCEnsureSpaceForMiss(c0)
                  IN  Returns([c1 EXCEPT !.T1 = OdSet(@, page_id)], FALSE)

\* access leaving a page hit in T1 in T1, at its MRU end.
ARCAccessT1HitStays(c, page_id) ==
    IF page_id \in Range(c.T1)
    THEN Returns([c EXCEPT !.T1 = OdMoveToEnd(@, page_id), !.hits = @ + 1], TRUE)
    ELSE IF page_id \in Range(c.T2)
    THEN Returns([ARCMoveToT2([c EXCEPT !.T2 = OdPop(@, page_id)], page_id)
                     EXCEPT !.hits = @ + 1], TRUE)
    ELSE LET c0 == [c EXCEPT !.misses = @ + 1]
         IN  IF page_id \in Range(c0.B1)
             THEN LET c1 == ARCReplace(ARCAdaptPOnB1Hit(c0), page_id)
                  IN  Returns(ARCMoveToT2([c1 EXCEPT !.B1 = OdPop(@, page_id)],
                                          page_id), FALSE)
             ELSE IF page_id \in Range(c0.B2)
             THEN LET c1 == ARCReplace(ARCAdaptPOnB2Hit(c0), page_id)
                  IN  Returns(ARCMoveToT2([c1 EXCEPT !.B2 = OdPop(@, page_id)],
                                          page_id), FALSE)
             ELSE LET c1 == ARCEnsureSpaceForMiss(c0)
                  IN  Returns([c1 EXCEPT !.T1 = OdSet(@, page_id)], FALSE)

\* access dropping a page hit in a ghost list without moving it to T2.
ARCAccessGhostNotPromoted(c, page_id) ==
    IF page_id \in Range(c.T1)
    THEN Returns([ARCMoveToT2([c EXCEPT !.T1 = OdPop(@, page_id)], page_id)
                     EXCEPT !.hits = @ + 1], TRUE)
    ELSE IF page_id \in Range(c.T2)
    THEN Returns([ARCMoveToT2([c EXCEPT !.T2 = OdPop(@, page_id)], page_id)
                     EXCEPT !.hits = @ + 1], TRUE)
    ELSE LET c0 == [c EXCEPT !.misses = @ + 1]
         IN  IF page_id \in Range(c0.B1)
             THEN LET c1 == ARCReplace(ARCAdaptPOnB1Hit(c0), page_id)
                  IN  Returns([c1 EXCEPT !.B1 = OdPop(@, page_id)], FALSE)
             ELSE IF page_id \in Range(c0.B2)
             THEN LET c1 == ARCReplace(ARCAdaptPOnB2Hit(c0), page_id)
                  IN  Returns([c1 EXCEPT !.B2 = OdPop(@, page_id)], FALSE)
             ELSE LET c1 == ARCEnsureSpaceForMiss(c0)
                  IN  Returns([c1 EXCEPT !.T1 = OdSet(@, page_id)], FALSE)

ARCAccess(c, page_id) ==
    IF page_id \in Range(c.T1)
    THEN Returns([ARCMoveToT2([c EXCEPT !.T1 = OdPop(@, page_id)], page_id)
                     EXCEPT !.hits = @ + 1], TRUE)
    ELSE IF page_id \in Range(c.T2)
    THEN Returns([ARCMoveToT2([c EXCEPT !.T2 = OdPop(@, page_id)], page_id)
                     EXCEPT !.hits = @ + 1], TRUE)
    ELSE LET c0 == [c EXCEPT !.misses = @ + 1]
         IN  IF page_id \in Range(c0.B1)
             THEN LET c1 == ARCReplace(ARCAdaptPOnB1Hit(c0), page_id)
                  IN  Returns(ARCMoveToT2([c1 EXCEPT !.B1 = OdPop(@, page_id)],
                                          page_id), FALSE)
             ELSE IF page_id \in Range(c0.B2)
             THEN LET c1 == ARCReplace(ARCAdaptPOnB2Hit(c0), page_id)
                  IN  Returns(ARCMoveToT2([c1 EXCEPT !.B2 = OdPop(@, page_id)],
                                          page_id), FALSE)
             ELSE LET c1 == ARCEnsureSpaceForMiss(c0)
                  IN  Returns([c1 EXCEPT !.T1 = OdSet(@, page_id)], FALSE)

\* --------------------------------------------------------------------- 2Q
DefaultA1out == 16

\* An optional int argument is <<>> for None and <<n>> for the int n.
TwoQCache(size, a1in_size, a1out_size) ==
    LET default_in == size \div 2
        size_in == Max2(1, Min2(size - 1,
                        IF a1in_size # <<>> THEN a1in_size[1] ELSE default_in))
        default_out == DefaultA1out
    IN  [kind |-> "2Q", size |-> size, size_in |-> size_in,
         size_out |-> Max2(1, IF a1out_size # <<>> THEN a1out_size[1]
                                                   ELSE default_out),
         size_am |-> Max2(1, size - size_in),
         A1in |-> <<>>, A1out |-> <<>>, Am |-> <<>>, hits |-> 0, misses |-> 0]

\* _evict_from_a1in without the trim of A1out.
TwoQEvictFromA1inNoTrim(c) ==
    IF c.A1in = <<>>
    THEN c
    ELSE [c EXCEPT !.A1in = Tail(@), !.A1out = OdSet(@, Head(c.A1in))]

TwoQEvictFromA1in(c) ==
    IF c.A1in = <<>>
    THEN c
    ELSE LET victim == Head(c.A1in)
             out == OdSet(c.A1out, victim)
         IN  [c EXCEPT !.A1in = Tail(@),
                       !.A1out = IF Len(out) > c.size_out THEN Tail(out) ELSE out]

\* _evict_from_am recording the page it pops in A1out.
TwoQEvictFromAmToGhost(c) ==
    IF c.Am # <<>>
    THEN [c EXCEPT !.Am = Tail(@), !.A1out = OdSet(@, Head(c.Am))]
    ELSE c

TwoQEvictFromAm(c) == IF c.Am # <<>> THEN [c EXCEPT !.Am = Tail(@)] ELSE c

\* access promoting a page hit in A1in to Am (the "simplified 2Q" rule).
TwoQAccessPromoteFromA1in(c, page_id) ==
    IF page_id \in Range(c.Am)
    THEN Returns([c EXCEPT !.hits = @ + 1, !.Am = OdMoveToEnd(@, page_id)], TRUE)
    ELSE IF page_id \in Range(c.A1in)
    THEN LET c1 == IF Len(c.Am) >= c.size_am THEN TwoQEvictFromAm(c) ELSE c
         IN  Returns([c1 EXCEPT !.hits = @ + 1,
                                !.A1in = OdPop(@, page_id),
                                !.Am = OdSet(@, page_id)], TRUE)
    ELSE LET c0 == [c EXCEPT !.misses = @ + 1]
         IN  IF page_id \in Range(c0.A1out)
             THEN LET c1 == IF Len(c0.Am) >= c0.size_am
                            THEN TwoQEvictFromAm(c0) ELSE c0
                  IN  Returns([c1 EXCEPT !.A1out = OdPop(@, page_id),
                                         !.Am = OdSet(@, page_id)], FALSE)
             ELSE LET c1 == IF Len(c0.A1in) >= c0.size_in
                            THEN TwoQEvictFromA1in(c0) ELSE c0
                  IN  Returns([c1 EXCEPT !.A1in = OdSet(@, page_id)], FALSE)

\* access leaving in A1out the page it promotes from there to Am.
TwoQAccessKeepGhost(c, page_id) ==
    IF page_id \in Range(c.Am)
    THEN Returns([c EXCEPT !.hits = @ + 1, !.Am = OdMoveToEnd(@, page_id)], TRUE)
    ELSE IF page_id \in Range(c.A1in)
    THEN Returns([c EXCEPT !.hits = @ + 1], TRUE)
    ELSE LET c0 == [c EXCEPT !.misses = @ + 1]
         IN  IF page_id \in Range(c0.A1out)
             THEN LET c1 == IF Len(c0.Am) >= c0.size_am
                            THEN TwoQEvictFromAm(c0) ELSE c0
                  IN  Returns([c1 EXCEPT !.Am = OdSet(@, page_id)], FALSE)
             ELSE LET c1 == IF Len(c0.A1in) >= c0.size_in
                            THEN TwoQEvictFromA1in(c0) ELSE c0
                  IN  Returns([c1 EXCEPT !.A1in = OdSet(@, page_id)], FALSE)

\* access moving a page hit in A1in to the tail of A1in.
TwoQAccessRefreshA1in(c, page_id) ==
    IF page_id \in Range(c.Am)
    THEN Returns([c EXCEPT !.hits = @ + 1, !.Am = OdMoveToEnd(@, page_id)], TRUE)
    ELSE IF page_id \in Range(c.A1in)
    THEN Returns([c EXCEPT !.hits = @ + 1,
                           !.A1in = OdMoveToEnd(@, page_id)], TRUE)
    ELSE LET c0 == [c EXCEPT !.misses = @ + 1]
         IN  IF page_id \in Range(c0.A1out)
             THEN LET c1 == IF Len(c0.Am) >= c0.size_am
                            THEN TwoQEvictFromAm(c0) ELSE c0
                  IN  Returns([c1 EXCEPT !.A1out = OdPop(@, page_id),
                                         !.Am = OdSet(@, page_id)], FALSE)
             ELSE LET c1 == IF Len(c0.A1in) >= c0.size_in
                            THEN TwoQEvictFromA1in(c0) ELSE c0
                  IN  Returns([c1 EXCEPT !.A1in = OdSet(@, page_id)], FALSE)

TwoQAccess(c, page_id) ==
    IF page_id \in Range(c.Am)
    THEN Returns([c EXCEPT !.hits = @ + 1, !.Am = OdMoveToEnd(@, page_id)], TRUE)
    ELSE IF page_id \in Range(c.A1in)
    THEN Returns([c EXCEPT !.hits = @ + 1], TRUE)
    ELSE LET c0 == [c EXCEPT !.misses = @ + 1]
         IN  IF page_id \in Range(c0.A1out)
             THEN LET c1 == IF Len(c0.Am) >= c0.size_am
                            THEN TwoQEvictFromAm(c0) ELSE c0
                  IN  Returns([c1 EXCEPT !.A1out = OdPop(@, page_id),
                                         !.Am = OdSet(@, page_id)], FALSE)
             ELSE LET c1 == IF Len(c0.A1in) >= c0.size_in
                            THEN TwoQEvictFromA1in(c0) ELSE c0
                  IN  Returns([c1 EXCEPT !.A1in = OdSet(@, page_id)], FALSE)

\* -------------------------------------------------------------- get_stats
GetStats(c) ==
    CASE c.kind = "ARC" -> [hits |-> c.hits, misses |-> c.misses, p |-> c.p]
      [] c.kind = "2Q"  -> [hits |-> c.hits, misses |-> c.misses,
                            a1in |-> Len(c.A1in), a1out |-> Len(c.A1out),
                            am |-> Len(c.Am)]
      [] OTHER          -> [hits |-> c.hits, misses |-> c.misses]

\* ------------------------------------------------- the simulation harness
VARIABLES
    trace,                \* Simulator.trace, the materialized key sequence
    cache_size,           \* the capacity every factory is called with
    selected_algorithms,  \* the names the caller loops over
    last_pass,            \* FALSE while another pass of the run_idx loop follows
    name_idx,             \* position of the loop in selected_algorithms
    phase,                \* "idle" | "running" | "done" | "failed"
    cache,                \* the instance under simulation
    before,               \* cache as it was right before the latest access
    pos,                  \* number of trace elements Simulator.run has replayed
    hits,                 \* Simulator.run's local hit counter
    misses,               \* Simulator.run's local miss counter
    outcomes,             \* the values access() returned in this run, in order
    raised,               \* the exception that ended the run, or "none"
    results,              \* name -> the SimulationResults appended so far
    outcome_log,          \* name -> the outcomes of each finished run
    tuning,               \* the locals of tune_two_q_offline, or NoTuning
    wider                 \* a second instance replayed side by side, or NoCache

vars == <<trace, cache_size, selected_algorithms, last_pass,
          name_idx, phase, cache, before, pos, hits, misses, outcomes, raised,
          results, outcome_log, tuning, wider>>

inputs == <<trace, cache_size, selected_algorithms>>

\* what only the tuning loop and the side-by-side replay use
aside == <<tuning, wider>>

\* selected_algorithms when the user picks "all"
AllAlgorithms == <<"LRU", "LFU", "FIFO", "ARC", "OPT", "2Q">>

NoCache == [kind |-> "none"]

NoTuning == [active |-> FALSE]

\* No policy compares page ids by order (OPT's choice among unused pages is
\* left open above), so traces are taken up to renaming of the pages: the
\* pages appear for the first time in the order 1, 2, 3, ...
FirstSeenInOrder(t) ==
    \A i \in 1..Len(t) : \A k \in 1..(t[i] - 1) : \E j \in 1..(i - 1) : t[j] = k

RECURSIVE OrderedTracesOfLen(_)
OrderedTracesOfLen(n) ==
    IF n = 0
    THEN {<<>>}
    ELSE {t \in {Append(u, k) : u \in OrderedTracesOfLen(n - 1), k \in Keys} :
            FirstSeenInOrder(t)}

Traces == UNION {OrderedTracesOfLen(n) : n \in 1..MaxLen}

\* factories[name]() of _build_cache_factories
Factory(name) ==
    CASE name = "LRU"  -> LRUCache(cache_size)
      [] name = "LFU"  -> LFUCache(cache_size)
      [] name = "FIFO" -> FIFOCache(cache_size)
      [] name = "ARC"  -> ARCCache(cache_size)
      [] name = "OPT"  -> OPTCache(cache_size, <<trace>>)
      [] name = "2Q"   -> TwoQCache(cache_size, <<>>, <<>>)

\* A constructor call: c is the instance the subclass __init__ builds once
\* Cache.__init__(size) has returned; when that raises, no instance is bound
\* and the exception ends the program.
Construct(size, c) ==
    IF CacheInitRaises(size)
    THEN /\ cache' = NoCache
         /\ raised' = "ValueError"
         /\ phase' = "failed"
    ELSE /\ cache' = c
         /\ phase' = "running"
         /\ UNCHANGED raised

\* SimulationResult built with the two counters exchanged.
SimulationResultSwapped(name) ==
    [algorithm |-> name, cache_size |-> cache_size,
     total_requests |-> Len(trace), hits |-> misses, misses |-> hits,
     cache_stats |-> GetStats(cache)]

SimulationResult(name) ==
    [algorithm |-> name, cache_size |-> cache_size,
     total_requests |-> Len(trace), hits |-> hits, misses |-> misses,
     cache_stats |-> GetStats(cache)]

HarnessInit ==
    /\ name_idx = 1
    /\ phase = "idle"
    /\ cache = NoCache
    /\ before = NoCache
    /\ pos = 0
    /\ hits = 0
    /\ misses = 0
    /\ outcomes = <<>>
    /\ raised = "none"
    /\ results = [name \in Range(AllAlgorithms) |-> <<>>]
    /\ outcome_log = [name \in Range(AllAlgorithms) |-> <<>>]
    /\ wider = NoCache

\* run_cli with every algorithm selected, each constructed with its default
\* parameters; the outer loop over run_idx makes two passes, and the second
\* pass is given the trace of the first.
Init ==
    /\ trace \in Traces
    /\ cache_size \in 1..MaxCap
    /\ selected_algorithms = AllAlgorithms
    /\ last_pass = FALSE
    /\ HarnessInit
    /\ tuning = NoTuning

\* cache = factories[name]() followed by the prologue of Simulator.run
StartRun ==
    /\ phase = "idle"
    /\ Construct(cache_size, Factory(selected_algorithms[name_idx]))
    /\ before' = cache'
    /\ pos' = 0
    /\ hits' = 0
    /\ misses' = 0
    /\ outcomes' = <<>>
    /\ UNCHANGED <<inputs, last_pass, name_idx, results, outcome_log, aside>>

\* One iteration of the loop of Simulator.run, r being what access() did.
Iteration(r) ==
    /\ before' = cache
    /\ cache' = r.cache
    /\ IF r.raised # "none"
       THEN /\ raised' = r.raised
            /\ phase' = "failed"
            /\ UNCHANGED <<pos, hits, misses, outcomes>>
       ELSE /\ pos' = pos + 1
            /\ hits' = IF r.hit THEN hits + 1 ELSE hits
            /\ misses' = IF r.hit THEN misses ELSE misses + 1
            /\ outcomes' = Append(outcomes, r.hit)
            /\ UNCHANGED <<raised, phase>>
    /\ UNCHANGED <<inputs, last_pass, name_idx, results, outcome_log, aside>>

InLoop(kind) == phase = "running" /\ pos < Len(trace) /\ cache.kind = kind

AccessFIFO == InLoop("FIFO") /\ Iteration(FIFOAccess(cache, trace[pos + 1]))

AccessLRU == InLoop("LRU") /\ Iteration(LRUAccess(cache, trace[pos + 1]))

AccessLFU == InLoop("LFU") /\ Iteration(LFUAccess(cache, trace[pos + 1]))

AccessOPT ==
    /\ InLoop("OPT")
    /\ \E r \in OPTAccess(cache, trace[pos + 1]) : Iteration(r)

AccessARC == InLoop("ARC") /\ Iteration(ARCAccess(cache, trace[pos + 1]))

AccessTwoQ == InLoop("2Q") /\ Iteration(TwoQAccess(cache, trace[pos + 1]))

\* The return of Simulator.run and the caller's append of the result.
FinishRun ==
    /\ phase = "running"
    /\ pos = Len(trace)
    /\ LET name == selected_algorithms[name_idx]
       IN  /\ results' = [results EXCEPT ![name] = Append(@, SimulationResult(name))]
           /\ outcome_log' = [outcome_log EXCEPT ![name] = Append(@, outcomes)]
    /\ IF name_idx < Len(selected_algorithms)
       THEN name_idx' = name_idx + 1 /\ phase' = "idle" /\ UNCHANGED last_pass
       ELSE IF ~last_pass
       THEN name_idx' = 1 /\ phase' = "idle" /\ last_pass' = TRUE
       ELSE phase' = "done" /\ UNCHANGED <<name_idx, last_pass>>
    /\ UNCHANGED <<inputs, cache, before, pos, hits, misses, outcomes, raised,
                   aside>>

Next ==
    \/ StartRun
    \/ AccessFIFO
    \/ AccessLRU
    \/ AccessLFU
    \/ AccessOPT
    \/ AccessARC
    \/ AccessTwoQ
    \/ FinishRun

Spec == Init /\ [][Next]_vars

\* --------------------------------------------- 2Q with explicit parameters
\* TwoQCache(cache_size, a1in_size=..., a1out_size=...) as the offline tuning
\* of main.py constructs it, the arguments ranging over None, values below 1
\* and values at or above the capacity.
A1inArgs == {<<>>} \cup {<<n>> : n \in -1..MaxCap}
A1outArgs == {<<>>} \cup {<<n>> : n \in 0..MaxA1out}

InitTwoQ ==
    /\ trace \in Traces
    /\ cache_size \in 1..MaxCap
    /\ selected_algorithms = <<"2Q">>
    /\ last_pass = TRUE
    /\ HarnessInit
    /\ tuning = NoTuning

StartTwoQ ==
    /\ phase = "idle"
    /\ \E a1in_size \in A1inArgs, a1out_size \in A1outArgs :
           Construct(cache_size, TwoQCache(cache_size, a1in_size, a1out_size))
    /\ before' = cache'
    /\ pos' = 0
    /\ hits' = 0
    /\ misses' = 0
    /\ outcomes' = <<>>
    /\ UNCHANGED <<inputs, last_pass, name_idx, results, outcome_log, aside>>

NextTwoQ ==
    \/ StartTwoQ
    \/ AccessTwoQ
    \/ FinishRun

SpecTwoQ == InitTwoQ /\ [][NextTwoQ]_vars

\* ------------------------------------------------- OPT without a trace
\* OPTCache(cache_size), the trace argument left at its default None, replayed
\* by Simulator.run as any other instance.
InitUnprimed ==
    /\ trace \in Traces
    /\ cache_size \in 1..MaxCap
    /\ selected_algorithms = <<"OPT">>
    /\ last_pass = TRUE
    /\ HarnessInit
    /\ tuning = NoTuning

StartUnprimedOPT ==
    /\ phase = "idle"
    /\ Construct(cache_size, OPTCache(cache_size, <<>>))
    /\ before' = cache'
    /\ pos' = 0
    /\ hits' = 0
    /\ misses' = 0
    /\ outcomes' = <<>>
    /\ UNCHANGED <<inputs, last_pass, name_idx, results, outcome_log, aside>>

NextUnprimed ==
    \/ StartUnprimedOPT
    \/ AccessOPT
    \/ FinishRun

SpecUnprimed == InitUnprimed /\ [][NextUnprimed]_vars

\* ------------------------------------------- construction with any capacity
\* One policy constructed by its factory with a capacity that may be zero or
\* negative, and replayed when the construction succeeds.
InitConstruct ==
    /\ trace \in Traces
    /\ cache_size \in -1..MaxCap
    /\ selected_algorithms \in {<<name>> : name \in Range(AllAlgorithms)}
    /\ last_pass = TRUE
    /\ HarnessInit
    /\ tuning = NoTuning

SpecConstruct == InitConstruct /\ [][Next]_vars

\* ------------------------------------------------------------- ARC alone
\* run_cli with ARC as the only algorithm selected, on traces one access
\* longer: p has to rise on a hit in B1 before a hit in B2 can find T1 exactly
\* as long as p.
ARCTraces == UNION {OrderedTracesOfLen(n) : n \in 1..(MaxLen + 1)}

\* A trace that leaves a cache of 3 pages with one page in B1 and two in B2,
\* the shortest state from which p moves by more than 1; the traces that go
\* on from it for up to MaxTail accesses reach it.
ARCWarmUp == <<1, 1, 2, 2, 3, 4, 3, 5, 6>>

ARCWarmTraces ==
    {ARCWarmUp \o tail :
        tail \in UNION {[1..n -> Range(ARCWarmUp) \cup Keys] : n \in 0..MaxTail}}

InitARC ==
    /\ trace \in ARCTraces \cup ARCWarmTraces
    /\ cache_size \in 1..MaxCap
    /\ selected_algorithms = <<"ARC">>
    /\ last_pass = TRUE
    /\ HarnessInit
    /\ tuning = NoTuning

NextARC ==
    \/ StartRun
    \/ AccessARC
    \/ FinishRun

SpecARC == InitARC /\ [][NextARC]_vars

\* ------------------------------------------------- offline tuning of 2Q
TWO_Q_A1OUT_FIXED == 32
TWO_Q_A1IN_MAX == 16

\* SimulationResult.hit_rate, the float (hits / total_requests) * 100 kept as
\* the exact fraction num / den with den > 0.
HitRate(result) ==
    IF result.total_requests # 0
    THEN [num |-> result.hits * 100, den |-> result.total_requests]
    ELSE [num |-> 0, den |-> 1]

\* a > b on two such fractions
RateGreater(a, b) == a.num * b.den > b.num * a.den

\* tune_two_q_offline(cache_size, trace) up to the first iteration of its loop
InitTune ==
    /\ trace \in Traces
    /\ cache_size \in 1..MaxCap
    /\ selected_algorithms = <<"2Q">>
    /\ last_pass = TRUE
    /\ HarnessInit
    /\ tuning = [active |-> TRUE,
                 search_upper |-> Min2(TWO_Q_A1IN_MAX, cache_size - 1),
                 a1in |-> 1,
                 best_a1in |-> 1,
                 best_hit_rate |-> [num |-> -1, den |-> 1],
                 returned |-> FALSE]

\* cache = TwoQCache(cache_size, a1in_size=a1in, a1out_size=TWO_Q_A1OUT_FIXED)
\* and the prologue of Simulator.run
TuneStart ==
    /\ phase = "idle"
    /\ tuning.a1in <= tuning.search_upper
    /\ Construct(cache_size,
                 TwoQCache(cache_size, <<tuning.a1in>>, <<TWO_Q_A1OUT_FIXED>>))
    /\ before' = cache'
    /\ pos' = 0
    /\ hits' = 0
    /\ misses' = 0
    /\ outcomes' = <<>>
    /\ UNCHANGED <<inputs, last_pass, name_idx, results, outcome_log, aside>>

\* the comparison that remembers the candidate just measured as the best so
\* far on a tie as well.
TuneUpdateOnTie(t, hit_rate) ==
    IF ~RateGreater(t.best_hit_rate, hit_rate)
    THEN [t EXCEPT !.best_hit_rate = hit_rate, !.best_a1in = t.a1in,
                   !.a1in = @ + 1]
    ELSE [t EXCEPT !.a1in = @ + 1]

\* the end of the loop body: the comparison and the step to the next candidate
TuneUpdate(t, hit_rate) ==
    IF RateGreater(hit_rate, t.best_hit_rate)
    THEN [t EXCEPT !.best_hit_rate = hit_rate, !.best_a1in = t.a1in,
                   !.a1in = @ + 1]
    ELSE [t EXCEPT !.a1in = @ + 1]

\* The return of Simulator.run into the loop body.
TuneFinish ==
    /\ phase = "running"
    /\ pos = Len(trace)
    /\ tuning' = TuneUpdate(tuning, HitRate(SimulationResult("2Q")))
    /\ phase' = "idle"
    /\ UNCHANGED <<inputs, last_pass, name_idx, cache, before, pos, hits, misses,
                   outcomes, raised, results, outcome_log, wider>>

\* return best_a1in, best_hit_rate
TuneReturn ==
    /\ phase = "idle"
    /\ tuning.a1in > tuning.search_upper
    /\ tuning' = [tuning EXCEPT !.returned = TRUE]
    /\ phase' = "done"
    /\ UNCHANGED <<inputs, last_pass, name_idx, cache, before, pos, hits, misses,
                   outcomes, raised, results, outcome_log, wider>>

NextTune ==
    \/ TuneStart
    \/ AccessTwoQ
    \/ TuneFinish
    \/ TuneReturn

SpecTune == InitTune /\ [][NextTune]_vars

\* ------------------------------------------ two LRU instances side by side
\* LRUCache(cache_size) replayed by Simulator.run while LRUCache(cache_size + 1)
\* is given the same accesses; wider keeps the second instance and what its
\* accesses returned.
InitPair ==
    /\ trace \in Traces
    /\ cache_size \in 1..MaxCap
    /\ selected_algorithms = <<"LRU">>
    /\ last_pass = TRUE
    /\ HarnessInit
    /\ tuning = NoTuning

StartPair ==
    /\ phase = "idle"
    /\ Construct(cache_size, LRUCache(cache_size))
    /\ wider' = [cache |-> LRUCache(cache_size + 1), outcomes |-> <<>>]
    /\ before' = cache'
    /\ pos' = 0
    /\ hits' = 0
    /\ misses' = 0
    /\ outcomes' = <<>>
    /\ UNCHANGED <<inputs, last_pass, name_idx, results, outcome_log, tuning>>

\* One iteration of the loop of Simulator.run, the second instance accessed
\* right after the first.
AccessLRUPair ==
    /\ InLoop("LRU")
    /\ LET r == LRUAccess(cache, trace[pos + 1])
           w == LRUAccess(wider.cache, trace[pos + 1])
       IN  /\ before' = cache
           /\ cache' = r.cache
           /\ pos' = pos + 1
           /\ hits' = IF r.hit THEN hits + 1 ELSE hits
           /\ misses' = IF r.hit THEN misses ELSE misses + 1
           /\ outcomes' = Append(outcomes, r.hit)
           /\ wider' = [cache |-> w.cache, outcomes |-> Append(wider.outcomes, w.hit)]
    /\ UNCHANGED <<inputs, last_pass, name_idx, raised, phase, results,
                   outcome_log, tuning>>

NextPair ==
    \/ StartPair
    \/ AccessLRUPair
    \/ FinishRun

SpecPair == InitPair /\ [][NextPair]_vars

\* ------------------------------------------------------------- properties
\* The resident (non-ghost) pages of an instance.
Resident(c) ==
    CASE c.kind = "FIFO" -> Range(c.queue)
      [] c.kind = "LRU"  -> Range(c.data)
      [] c.kind = "LFU"  -> DOMAIN c.key_freq
      [] c.kind = "OPT"  -> c.cache
      [] c.kind = "ARC"  -> Range(c.T1) \cup Range(c.T2)
      [] c.kind = "2Q"   -> Range(c.A1in) \cup Range(c.Am)
      [] OTHER           -> {}

\* An access has been made on the current instance; trace[pos] is its page,
\* outcomes[pos] what it returned, before the instance as it found it.
Accessed == cache.kind # "none" /\ pos > 0 /\ Len(outcomes) = pos

\* C1: for FIFO, LRU, LFU and OPT the number of resident pages never exceeds
\* the capacity, after every access of every trace.
C1_CapacitySimplePolicies ==
    /\ cache.kind = "FIFO" =>
          Len(cache.queue) <= cache_size /\ Cardinality(cache.members) <= cache_size
    /\ cache.kind = "LRU" => Len(cache.data) <= cache_size
    /\ cache.kind = "LFU" => Cardinality(DOMAIN cache.key_freq) <= cache_size
    /\ cache.kind = "OPT" => Cardinality(cache.cache) <= cache_size

\* C1 witness: an access of one of the four policies found the cache full and
\* evicted a page to make room.
C1_Witness ==
    /\ Accessed
    /\ cache.kind \in {"FIFO", "LRU", "LFU", "OPT"}
    /\ Cardinality(Resident(before)) = cache_size
    /\ Resident(before) \ Resident(cache) # {}
    /\ Cardinality(Resident(cache)) = cache_size

\* C2: for ARC, |T1| + |T2| never exceeds the capacity (ghosts not counted).
C2_ARCCapacity ==
    cache.kind = "ARC" => Len(cache.T1) + Len(cache.T2) <= cache_size

\* C2 witness: a miss on a full ARC cache pushed a resident page into a ghost
\* list and the cache is full again.
C2_Witness ==
    /\ Accessed
    /\ cache.kind = "ARC"
    /\ Len(before.T1) + Len(before.T2) = cache_size
    /\ Len(cache.T1) + Len(cache.T2) = cache_size
    /\ Len(cache.B1) + Len(cache.B2) > Len(before.B1) + Len(before.B2)

\* C3 (as claimed): for 2Q, |A1in| + |Am| never exceeds the capacity, for every
\* capacity >= 1 and every a1in_size / a1out_size argument.
C3_TwoQCapacity ==
    cache.kind = "2Q" => Len(cache.A1in) + Len(cache.Am) <= cache_size

\* C4 (as claimed): on the same trace and capacity, no policy scores more
\* hits than OPT.
C4_OPTOptimal ==
    \A name \in Range(AllAlgorithms) :
        \A i \in 1..Len(results[name]) :
            i <= Len(results["OPT"]) =>
                results[name][i].hits <= results["OPT"][i].hits

\* C5: a second fresh instance of the same kind and capacity replaying the
\* same trace returns the same hit/miss sequence as the first one did, for OPT
\* whichever unused page its victim loop returns.
C5_Deterministic ==
    /\ \A name \in Range(AllAlgorithms) :
          Len(outcome_log[name]) >= 2 => outcome_log[name][1] = outcome_log[name][2]
    /\ (phase = "running" /\ outcome_log[selected_algorithms[name_idx]] # <<>>) =>
          outcomes = SubSeq(outcome_log[selected_algorithms[name_idx]][1], 1, pos)

\* C5 witness: the second OPT instance has just evicted one of several
\* resident pages that never occur again.
C5_Witness ==
    /\ Accessed
    /\ cache.kind = "OPT"
    /\ outcome_log["OPT"] # <<>>
    /\ ~outcomes[pos]
    /\ Cardinality(before.cache) = cache_size
    /\ Cardinality({page \in before.cache :
                       OPTDropCurrentReference(before, trace[pos])
                           .future_positions[page] = <<>>}) >= 2

\* C6: access(k) returns hit exactly when k was resident right before the
\* call; a page that is only in a ghost list is a miss.
C6_HitIffResident ==
    Accessed => (outcomes[pos] <=> trace[pos] \in Resident(before))

\* C6 witness: an ARC access to a page that was only in a ghost list missed.
C6_Witness ==
    /\ Accessed
    /\ cache.kind = "ARC"
    /\ trace[pos] \in Range(before.B1) \cup Range(before.B2)
    /\ ~outcomes[pos]

\* C7: each access adds exactly 1 to exactly one of the instance's counters,
\* hits when it returned hit and misses otherwise, so hits + misses is the
\* number of accesses made so far.
C7_Counters ==
    /\ Accessed =>
          /\ cache.hits = before.hits + (IF outcomes[pos] THEN 1 ELSE 0)
          /\ cache.misses = before.misses + (IF outcomes[pos] THEN 0 ELSE 1)
    /\ cache.kind # "none" => cache.hits + cache.misses = pos

\* C7 witness: an ARC run is stopped short of the end of the trace with both
\* hits and misses counted.
C7_Witness ==
    /\ Accessed
    /\ cache.kind = "ARC"
    /\ pos < Len(trace)
    /\ cache.hits > 0
    /\ cache.misses > 0
    /\ outcomes[pos]
    /\ trace[pos] \in Range(before.T2)

\* C8: for ARC, 0 <= p <= capacity after every access.
C8_ARCPBound ==
    cache.kind = "ARC" => 0 <= cache.p /\ cache.p <= cache_size

\* C8 witness: a hit in B2 with p already 0 left p at 0.
C8_Witness ==
    /\ Accessed
    /\ cache.kind = "ARC"
    /\ trace[pos] \in Range(before.B2)
    /\ before.p = 0
    /\ cache.p = 0

\* C9: for ARC the lists T1, T2, B1, B2 are pairwise disjoint (and hold no
\* page twice).
C9_ARCDisjoint ==
    cache.kind = "ARC" =>
        Cardinality(Range(cache.T1) \cup Range(cache.T2)
                    \cup Range(cache.B1) \cup Range(cache.B2))
            = Len(cache.T1) + Len(cache.T2) + Len(cache.B1) + Len(cache.B2)

\* C9 witness: all four lists hold a page at once.
C9_Witness ==
    /\ cache.kind = "ARC"
    /\ cache.T1 # <<>>
    /\ cache.T2 # <<>>
    /\ cache.B1 # <<>>
    /\ cache.B2 # <<>>

\* C10: for 2Q a page newly in Am after an access is the accessed page and was
\* in A1out, not in A1in, right before it; nothing moves from A1in to Am.
C10_TwoQPromotion ==
    (Accessed /\ cache.kind = "2Q") =>
        \A k \in Range(cache.Am) \ Range(before.Am) :
            /\ k = trace[pos]
            /\ k \in Range(before.A1out)
            /\ k \notin Range(before.A1in)

\* C10 witness: a page hit while in A1in stayed out of Am, was later evicted to
\* A1out, and the access to it there has just put it into Am.
C10_Witness ==
    /\ Accessed
    /\ cache.kind = "2Q"
    /\ trace[pos] \in Range(before.A1out)
    /\ trace[pos] \in Range(cache.Am)
    /\ \E i \in 2..(pos - 1) : trace[i] = trace[pos] /\ outcomes[i]

\* ---------------------------------------- the run so far, read off the trace
SetMax(S) == CHOOSE x \in S : \A y \in S : y <= x
SetMin(S) == CHOOSE x \in S : \A y \in S : x <= y

\* The latest of the first n accesses that went to page k (0: none did).
LastAccess(k, n) == SetMax({0} \cup {i \in 1..n : trace[i] = k})

\* The latest of the first n accesses that inserted page k, i.e. missed on it.
LastInsert(k, n) ==
    SetMax({0} \cup {i \in 1..n : trace[i] = k /\ ~outcomes[i]})

\* 1 + the number of hits on k since it was last inserted.
FreqAt(k, n) == Cardinality({i \in LastInsert(k, n)..n : i >= 1 /\ trace[i] = k})

\* The latest access has missed on a full cache.
MissedAtCapacity ==
    Accessed /\ ~outcomes[pos] /\ Cardinality(Resident(before)) = cache_size

Evicted == Resident(before) \ Resident(cache)

\* The resident pages of lowest frequency right before the latest access.
LeastFrequent ==
    LET lowest == SetMin({FreqAt(k, pos - 1) : k \in Resident(before)})
    IN  {k \in Resident(before) : FreqAt(k, pos - 1) = lowest}

\* C11: an LFU miss at capacity evicts, among the resident pages of minimum
\* frequency, the one that entered that frequency earliest. A page enters its
\* current frequency at its latest access (insertion at 1, or promotion).
C11_LFUTieBreak ==
    (MissedAtCapacity /\ cache.kind = "LFU") =>
        \E victim \in LeastFrequent :
            /\ Evicted = {victim}
            /\ \A k \in LeastFrequent :
                  LastAccess(victim, pos - 1) <= LastAccess(k, pos - 1)

\* C11 witness: the victim was tied with a lower page at a frequency both had
\* been promoted to.
C11_Witness ==
    /\ MissedAtCapacity
    /\ cache.kind = "LFU"
    /\ \E victim \in Evicted :
          /\ FreqAt(victim, pos - 1) >= 2
          /\ \E k \in LeastFrequent : k < victim

\* C12: an OPT instance constructed without a trace and never primed returns
\* neither hit nor miss from any access: each access fails with NotPrimed.
C12_UnprimedAccessFails ==
    (cache.kind = "OPT" /\ ~cache.trace_preloaded) =>
        /\ outcomes = <<>>
        /\ pos = 0
        /\ cache = before \/ raised = "NotPrimed"

\* C13: for each of the six policies, construction with capacity <= 0 raises
\* and binds no instance; construction with capacity >= 1 raises nothing and
\* binds an instance of the policy asked for.
C13_Construction ==
    /\ cache_size <= 0 =>
          /\ cache = NoCache
          /\ phase \in {"idle", "failed"}
          /\ phase = "failed" => raised = "ValueError"
          /\ outcomes = <<>>
    /\ cache_size >= 1 =>
          /\ raised # "ValueError"
          /\ phase # "idle" =>
                /\ cache.kind = selected_algorithms[name_idx]
                /\ cache.size = cache_size

\* C13 witness: the construction of a 2Q instance with capacity 0 has failed.
C13_Witness ==
    /\ cache_size = 0
    /\ selected_algorithms = <<"2Q">>
    /\ phase = "failed"
    /\ raised = "ValueError"
    /\ cache = NoCache

\* The number of accesses of a run, given by their outcomes, that returned v.
CountOf(os, v) == Cardinality({i \in 1..Len(os) : os[i] = v})

\* C14: Simulator.run calls access once per trace element, in trace order, and
\* its result has total_requests = length of the trace, hits = number of
\* accesses that returned hit, misses = number that returned miss, and a
\* policy stats snapshot with those same two numbers.
C14_RunResult ==
    /\ phase = "running" =>
          /\ Len(outcomes) = pos
          /\ pos <= Len(trace)
          /\ hits = CountOf(outcomes, TRUE)
          /\ misses = CountOf(outcomes, FALSE)
    /\ \A name \in Range(AllAlgorithms) :
          /\ Len(results[name]) = Len(outcome_log[name])
          /\ \A i \in 1..Len(results[name]) :
                LET result == results[name][i]
                    os == outcome_log[name][i]
                IN  /\ result.algorithm = name
                    /\ Len(os) = Len(trace)
                    /\ result.total_requests = Len(trace)
                    /\ result.hits = CountOf(os, TRUE)
                    /\ result.misses = CountOf(os, FALSE)
                    /\ result.hits + result.misses = result.total_requests
                    /\ result.cache_stats.hits = result.hits
                    /\ result.cache_stats.misses = result.misses

\* C14 witness: both passes have returned a result for every policy, and the
\* runs of one policy had more hits than misses, of another more misses than
\* hits.
C14_Witness ==
    /\ phase = "done"
    /\ \A name \in Range(AllAlgorithms) : Len(results[name]) = 2
    /\ \E name \in Range(AllAlgorithms) :
          results[name][1].hits > results[name][1].misses
    /\ \E name \in Range(AllAlgorithms) :
          /\ results[name][2].misses > results[name][2].hits
          /\ results[name][2].hits > 0

\* The pages among the first n accesses.
Seen(n) == {trace[i] : i \in 1..n}

\* C15: for LRU the resident pages are the min(capacity, distinct pages seen)
\* most recently accessed distinct pages, ordered by last access; a hit moves
\* the page to the MRU end and a miss at capacity evicts the least recently
\* accessed resident page.
C15_LRURecency ==
    cache.kind = "LRU" =>
        LET data == cache.data
        IN  /\ Len(data) = Min2(cache_size, Cardinality(Seen(pos)))
            /\ Range(data) \subseteq Seen(pos)
            /\ \A i, j \in 1..Len(data) :
                  i < j => LastAccess(data[i], pos) < LastAccess(data[j], pos)
            /\ \A k \in Seen(pos) \ Range(data) : \A r \in Range(data) :
                  LastAccess(k, pos) < LastAccess(r, pos)
            /\ Accessed => data[Len(data)] = trace[pos]
            /\ (Accessed /\ outcomes[pos]) => Range(data) = Range(before.data)
            /\ MissedAtCapacity =>
                  \E victim \in Range(before.data) :
                      /\ Evicted = {victim}
                      /\ \A r \in Range(before.data) :
                            LastAccess(victim, pos - 1) <= LastAccess(r, pos - 1)

\* C15 witness: the page evicted is not the oldest insertion: a page inserted
\* before it was hit since and stays resident.
C15_Witness ==
    /\ cache.kind = "LRU"
    /\ MissedAtCapacity
    /\ \E victim \in Evicted : \E r \in Range(cache.data) :
          /\ LastInsert(r, pos - 1) < LastInsert(victim, pos - 1)
          /\ LastAccess(victim, pos - 1) < LastAccess(r, pos - 1)

\* C16: for FIFO a hit changes neither the queue order nor the resident set,
\* and a miss at capacity evicts the resident page whose insertion (its most
\* recent miss) is oldest, however many hits it has received since.
C16_FIFOInsertionOrder ==
    cache.kind = "FIFO" =>
        /\ cache.members = Range(cache.queue)
        /\ \A i, j \in 1..Len(cache.queue) :
              i < j => LastInsert(cache.queue[i], pos) < LastInsert(cache.queue[j], pos)
        /\ (Accessed /\ outcomes[pos]) =>
              cache.queue = before.queue /\ cache.members = before.members
        /\ MissedAtCapacity =>
              /\ cache.queue = Append(Tail(before.queue), trace[pos])
              /\ \E victim \in before.members :
                    /\ Evicted = {victim}
                    /\ \A r \in before.members :
                          LastInsert(victim, pos - 1) <= LastInsert(r, pos - 1)

\* C16 witness: the page evicted had been hit since its insertion and was the
\* most recently accessed of the resident pages.
C16_Witness ==
    /\ cache.kind = "FIFO"
    /\ MissedAtCapacity
    /\ \E victim \in Evicted :
          /\ FreqAt(victim, pos - 1) >= 2
          /\ \A r \in before.members \ {victim} :
                LastAccess(r, pos - 1) < LastAccess(victim, pos - 1)

\* C17: for LFU, after every access with a non-empty cache min_freq is the
\* smallest frequency of a resident page and bucket[min_freq] is non-empty, so
\* the page evicted on a miss at capacity has the minimum frequency among the
\* resident pages.
C17_LFUMinFreq ==
    cache.kind = "LFU" =>
        /\ raised = "none"
        /\ \A k \in DOMAIN cache.key_freq : cache.key_freq[k] = FreqAt(k, pos)
        /\ DOMAIN cache.key_freq # {} =>
              /\ cache.min_freq =
                    SetMin({cache.key_freq[k] : k \in DOMAIN cache.key_freq})
              /\ Bucket(cache.freq_keys, cache.min_freq) # <<>>
              /\ Range(Bucket(cache.freq_keys, cache.min_freq)) =
                    {k \in DOMAIN cache.key_freq :
                        cache.key_freq[k] = cache.min_freq}
        /\ MissedAtCapacity =>
              /\ Evicted # {}
              /\ \A victim \in Evicted : \A k \in DOMAIN before.key_freq :
                    before.key_freq[victim] <= before.key_freq[k]

\* C17 witness: a page of frequency 2 or more was evicted while a page of
\* higher frequency, idle for longer, stayed.
C17_Witness ==
    /\ cache.kind = "LFU"
    /\ MissedAtCapacity
    /\ before.min_freq >= 2
    /\ \E victim \in Evicted : \E k \in DOMAIN cache.key_freq :
          /\ k \in DOMAIN before.key_freq
          /\ before.key_freq[k] > before.key_freq[victim]
          /\ LastAccess(k, pos - 1) < LastAccess(victim, pos - 1)

\* The positions after the first n accesses at which the trace asks for k.
LaterUses(k, n) == {i \in (n + 1)..Len(trace) : trace[i] = k}

\* The resident pages the trace never asks for again after the latest access.
NeverUsedAgain == {k \in Resident(before) : LaterUses(k, pos) = {}}

\* C18: OPT replaying the trace it was built from evicts, on every miss at
\* capacity, a resident page with no later occurrence in the trace if there is
\* one, and otherwise the resident page whose next occurrence is the farthest.
C18_OPTVictim ==
    (cache.kind = "OPT" /\ cache.trace_preloaded /\ MissedAtCapacity) =>
        \E victim \in before.cache :
            /\ Evicted = {victim}
            /\ cache.cache = (before.cache \ {victim}) \cup {trace[pos]}
            /\ IF NeverUsedAgain # {}
               THEN victim \in NeverUsedAgain
               ELSE \A r \in before.cache :
                       SetMin(LaterUses(r, pos)) <= SetMin(LaterUses(victim, pos))

\* C18 witness: every resident page occurs again, and the page evicted is the
\* most recently accessed of them.
C18_Witness ==
    /\ cache.kind = "OPT"
    /\ cache.trace_preloaded
    /\ MissedAtCapacity
    /\ cache_size >= 2
    /\ NeverUsedAgain = {}
    /\ \E victim \in Evicted : \A r \in before.cache \ {victim} :
          /\ LastAccess(r, pos - 1) < LastAccess(victim, pos - 1)
          /\ SetMin(LaterUses(r, pos)) < SetMin(LaterUses(victim, pos))

\* C19: when several resident pages have no remaining occurrence at an OPT miss
\* at capacity, the victim is the lowest of them, whatever order the resident
\* set is iterated in.
C19_OPTLowestUnused ==
    (cache.kind = "OPT" /\ cache.trace_preloaded /\ MissedAtCapacity
        /\ Cardinality(NeverUsedAgain) >= 2) =>
        Evicted = {SetMin(NeverUsedAgain)}

\* The 0-based indices from step n on at which the trace asks for k, ascending.
OccurrencesFrom(k, n) ==
    SelectSeq([i \in 1..Len(trace) |-> i - 1],
              LAMBDA index : index >= n /\ trace[index + 1] = k)

\* C20: OPT replaying the trace it was built from holds, after the access at
\* step t, for every page exactly the page's occurrence indices greater than
\* t, in increasing order.
C20_OPTFutureQueues ==
    (cache.kind = "OPT" /\ cache.trace_preloaded) =>
        /\ cache.current_step = pos
        /\ \A k \in Keys : cache.future_positions[k] = OccurrencesFrom(k, pos)

\* C20 witness: the latest access popped its own index from the queue of its
\* page, which still holds a later occurrence, while other queues are spent.
C20_Witness ==
    /\ cache.kind = "OPT"
    /\ cache.trace_preloaded
    /\ Accessed
    /\ before.future_positions[trace[pos]] # <<>>
    /\ Head(before.future_positions[trace[pos]]) = pos - 1
    /\ cache.future_positions[trace[pos]] = Tail(before.future_positions[trace[pos]])
    /\ cache.future_positions[trace[pos]] # <<>>
    /\ \E k \in Seen(pos) : cache.future_positions[k] = <<>>

\* ------------------------------------------- the latest access, seen by ARC
Last(s) == s[Len(s)]

ARCDirectory(c) == Range(c.T1) \cup Range(c.T2) \cup Range(c.B1) \cup Range(c.B2)

ARCStep == Accessed /\ cache.kind = "ARC"

ARCResidentHit == ARCStep /\ trace[pos] \in Range(before.T1) \cup Range(before.T2)

ARCGhostHit == ARCStep /\ trace[pos] \in Range(before.B1) \cup Range(before.B2)

ARCUnseenMiss == ARCStep /\ trace[pos] \notin ARCDirectory(before)

\* |T1| + |T2| + |B1| + |B2| as the latest access found it
GrandTotalBefore ==
    Len(before.T1) + Len(before.T2) + Len(before.B1) + Len(before.B2)

\* The latest access ran the replace step: it does on every ghost hit, and on
\* a miss for an unseen page from either branch of the space-ensuring step.
ARCReplaceRan ==
    \/ ARCGhostHit
    \/ /\ ARCUnseenMiss
       /\ IF Len(before.T1) + Len(before.B1) = cache_size
          THEN Len(before.T1) < cache_size
          ELSE GrandTotalBefore >= cache_size

\* The latest access moved the LRU page of T1 to the MRU end of B1.
ARCTookT1 ==
    /\ before.T1 # <<>>
    /\ cache.T1 = IF ARCGhostHit THEN Tail(before.T1)
                                 ELSE Append(Tail(before.T1), trace[pos])
    /\ cache.B1 # <<>>
    /\ Last(cache.B1) = Head(before.T1)
    /\ Range(before.T2) \subseteq Range(cache.T2)

\* The latest access moved the LRU page of T2 to the MRU end of B2.
ARCTookT2 ==
    /\ before.T2 # <<>>
    /\ Head(before.T2) \notin Range(cache.T2)
    /\ SubSeq(cache.T2, 1, Len(before.T2) - 1) = Tail(before.T2)
    /\ cache.B2 # <<>>
    /\ Last(cache.B2) = Head(before.T2)
    /\ Range(before.T1) \subseteq Range(cache.T1)

\* The test of the replace step, p being the value the access leaves.
ARCReplacePrefersT1 ==
    /\ before.T1 # <<>>
    /\ \/ Len(before.T1) > cache.p
       \/ trace[pos] \in Range(before.B2) /\ Len(before.T1) = cache.p

\* C21: the ARC replace step evicts the LRU page of T1 into the MRU end of B1
\* exactly when T1 is non-empty and (|T1| > p, or the accessed page is in B2
\* and |T1| = p), p taken after the adaptation of the access; in every other
\* case it evicts the LRU page of T2 into the MRU end of B2.
C21_ARCReplaceChoice ==
    ARCReplaceRan =>
        IF ARCReplacePrefersT1
        THEN ARCTookT1 /\ ~ARCTookT2
        ELSE ARCTookT2 /\ ~ARCTookT1

\* C21 witness: a hit in B2 found T1 exactly as long as the adapted p, and T1
\* gave up its LRU page.
C21_Witness ==
    /\ ARCGhostHit
    /\ trace[pos] \in Range(before.B2)
    /\ before.T1 # <<>>
    /\ Len(before.T1) = cache.p
    /\ ARCTookT1

ARCGhosts(c) == Range(c.B1) \cup Range(c.B2)

\* C22: every execution of the ARC replace step moves exactly one page from T1
\* or T2 into a ghost list; the branch in which T1 is not chosen and T2 is
\* empty, where nothing is evicted, is never reached.
C22_ARCReplaceEvictsOne ==
    ARCReplaceRan =>
        /\ ~(~ARCReplacePrefersT1 /\ before.T2 = <<>>)
        /\ \E victim \in Resident(before) :
              /\ Evicted = {victim}
              /\ ARCGhosts(cache) \ ARCGhosts(before) = {victim}
              /\ victim \in Range(before.T1) <=> victim \in Range(cache.B1)
              /\ victim \in Range(before.T2) <=> victim \in Range(cache.B2)

\* C22 witness: the replace step, called without a candidate, passed over a
\* non-empty T1 and evicted from T2.
C22_Witness ==
    /\ ARCUnseenMiss
    /\ ARCReplaceRan
    /\ before.T1 # <<>>
    /\ ~ARCReplacePrefersT1
    /\ ARCTookT2

IsPrefix(s, t) == Len(s) <= Len(t) /\ SubSeq(t, 1, Len(s)) = s

\* The latest access appended its page to T1 and touched nothing else.
ARCInsertedOnly ==
    /\ cache.T1 = Append(before.T1, trace[pos])
    /\ cache.T2 = before.T2
    /\ cache.B1 = before.B1
    /\ cache.B2 = before.B2
    /\ cache.p = before.p

\* C23 as stated: on a miss for an unseen page with |T1| + |B1| # capacity, B2
\* is trimmed and the replace step run only when the four lists hold at least
\* 2 x capacity pages; below that the page is inserted without any eviction.
C23_ReplaceOnlyAtTwiceCapacity ==
    (ARCUnseenMiss /\ Len(before.T1) + Len(before.B1) # cache_size) =>
        IF GrandTotalBefore >= 2 * cache_size
        THEN Cardinality(Evicted) = 1
        ELSE ARCInsertedOnly

\* C23 amended: on such a miss the replace step is run when the four lists
\* hold at least capacity pages, and B2 loses its LRU page first only when
\* they hold exactly 2 x capacity; below capacity the page is inserted into T1
\* without any eviction.
C23_ReplaceFromCapacity ==
    (ARCUnseenMiss /\ Len(before.T1) + Len(before.B1) # cache_size) =>
        IF GrandTotalBefore >= cache_size
        THEN /\ Cardinality(Evicted) = 1
             /\ ARCTookT1 \/ ARCTookT2
             /\ cache.p = before.p
             /\ GrandTotalBefore <= 2 * cache_size
             /\ IF GrandTotalBefore = 2 * cache_size
                THEN /\ before.B2 # <<>>
                     /\ Head(before.B2) \notin ARCDirectory(cache)
                     /\ IsPrefix(Tail(before.B2), cache.B2)
                ELSE IsPrefix(before.B2, cache.B2)
        ELSE ARCInsertedOnly

\* C23 witness: the lists held exactly 2 x capacity pages, B2 lost its LRU
\* page and the replace step evicted a resident page.
C23_Witness ==
    /\ ARCUnseenMiss
    /\ Len(before.T1) + Len(before.B1) # cache_size
    /\ GrandTotalBefore = 2 * cache_size
    /\ cache_size >= 2
    /\ Head(before.B2) \notin ARCDirectory(cache)
    /\ Cardinality(Evicted) = 1

\* C24: on a miss for an unseen page with |T1| = capacity (so B1 is empty) the
\* LRU page of T1 is removed and recorded in no ghost list, so a later access
\* to it is a miss for an unseen page; with |T1| + |B1| = capacity and
\* |T1| < capacity the LRU page of B1 is dropped instead.
C24_ARCFullL1 ==
    /\ (cache.kind = "ARC" /\ Len(cache.T1) = cache_size) => cache.B1 = <<>>
    /\ (ARCUnseenMiss /\ Len(before.T1) = cache_size) =>
          /\ cache.T1 = Append(Tail(before.T1), trace[pos])
          /\ Head(before.T1) \notin ARCDirectory(cache)
          /\ cache.T2 = before.T2
          /\ cache.B1 = before.B1
          /\ cache.B2 = before.B2
    /\ (ARCUnseenMiss /\ Len(before.T1) + Len(before.B1) = cache_size
            /\ Len(before.T1) < cache_size) =>
          /\ Head(before.B1) \notin ARCDirectory(cache)
          /\ IsPrefix(Tail(before.B1), cache.B1)
          /\ Cardinality(Evicted) = 1

\* C24 witness: a page dropped from a full T1 came back as an unseen page and
\* found T1 full again.
C24_Witness ==
    /\ ARCUnseenMiss
    /\ trace[pos] \in Seen(pos - 1)
    /\ Len(before.T1) = cache_size
    /\ cache_size >= 2

Without(s, k) == SelectSeq(s, LAMBDA x : x # k)

\* C26: an ARC hit on a page in T1 or T2 moves the page to the MRU end of T2
\* and changes nothing else: B1, B2 and p are unchanged, no page is evicted,
\* and the other pages of T1 and T2 keep their relative order.
C26_ARCHitFrame ==
    ARCResidentHit =>
        /\ outcomes[pos]
        /\ cache.T1 = Without(before.T1, trace[pos])
        /\ cache.T2 = Append(Without(before.T2, trace[pos]), trace[pos])
        /\ cache.B1 = before.B1
        /\ cache.B2 = before.B2
        /\ cache.p = before.p
        /\ Resident(cache) = Resident(before)
        /\ cache.misses = before.misses

\* C26 witness: the page hit was the LRU page of a T1 of several pages, with
\* other pages in T2 and in both ghost lists.
C26_Witness ==
    /\ ARCResidentHit
    /\ Len(before.T1) >= 2
    /\ Head(before.T1) = trace[pos]
    /\ before.T2 # <<>>
    /\ before.B1 # <<>>
    /\ before.B2 # <<>>

\* C27: whenever the ARC replace step is invoked, with or without a candidate
\* page, T1 or T2 is non-empty; the call without a candidate from the
\* space-ensuring step never finds both empty.
C27_ARCReplaceHasResident ==
    /\ (cache.kind = "ARC" /\ ARCDirectory(cache) # {}) => Resident(cache) # {}
    /\ ARCReplaceRan => before.T1 # <<>> \/ before.T2 # <<>>

\* C27 witness: the call without a candidate found T1 empty and T2 not.
C27_Witness ==
    /\ ARCUnseenMiss
    /\ ARCReplaceRan
    /\ before.T1 = <<>>
    /\ before.T2 # <<>>
    /\ before.B1 # <<>>

\* C28: for every capacity >= 1 and every a1in_size argument (none, 0,
\* negative, at or above the capacity) the sizes 2Q configures satisfy
\* size_in >= 1, size_am >= 1 and size_am = capacity - size_in.
C28_TwoQSizes ==
    cache.kind = "2Q" =>
        /\ cache.size_in >= 1
        /\ cache.size_am >= 1
        /\ cache.size_am = cache_size - cache.size_in

NoDuplicates(s) == \A i, j \in 1..Len(s) : i # j => s[i] # s[j]

\* C29: after every access of every trace the three lists of 2Q are pairwise
\* disjoint: no page is in more than one of A1in, A1out and Am.
C29_TwoQDisjoint ==
    cache.kind = "2Q" =>
        /\ Range(cache.A1in) \cap Range(cache.A1out) = {}
        /\ Range(cache.A1in) \cap Range(cache.Am) = {}
        /\ Range(cache.A1out) \cap Range(cache.Am) = {}
        /\ NoDuplicates(cache.A1in \o cache.A1out \o cache.Am)

\* C29 witness: the access promoted a page from A1out to Am, evicting from a
\* full Am, and left pages in all three lists.
C29_Witness ==
    /\ Accessed
    /\ cache.kind = "2Q"
    /\ trace[pos] \in Range(before.A1out)
    /\ Len(before.Am) >= before.size_am
    /\ trace[pos] \in Range(cache.Am)
    /\ cache.A1in # <<>>
    /\ cache.A1out # <<>>

\* C30: a 2Q hit on a page in A1in changes only the hit counter: contents and
\* order of A1in, A1out and Am are unchanged, so the page keeps its FIFO
\* position and leaves A1in in arrival order however often it was hit.
C30_TwoQA1inHitFrame ==
    cache.kind = "2Q" =>
        /\ \A i, j \in 1..Len(cache.A1in) :
              i < j => LastInsert(cache.A1in[i], pos) < LastInsert(cache.A1in[j], pos)
        /\ (Accessed /\ trace[pos] \in Range(before.A1in)) =>
              /\ outcomes[pos]
              /\ cache = [before EXCEPT !.hits = @ + 1]
        /\ (Accessed /\ Len(cache.A1in) <= Len(before.A1in)
                /\ Range(before.A1in) \ Range(cache.A1in) # {}) =>
              Range(before.A1in) \ Range(cache.A1in) = {Head(before.A1in)}

\* C30 witness: the page that left A1in had been hit there after a page that
\* arrived later and stays.
C30_Witness ==
    /\ Accessed
    /\ cache.kind = "2Q"
    /\ ~outcomes[pos]
    /\ Len(before.A1in) >= 2
    /\ Head(before.A1in) \notin Range(cache.A1in)
    /\ FreqAt(Head(before.A1in), pos - 1) >= 2
    /\ \E k \in Range(cache.A1in) \cap Range(before.A1in) :
          LastAccess(k, pos - 1) < LastAccess(Head(before.A1in), pos - 1)

\* ------------------------------------------- the latest access, seen by 2Q
TwoQStep == Accessed /\ cache.kind = "2Q"

TwoQDirectory(c) == Range(c.A1in) \cup Range(c.A1out) \cup Range(c.Am)

TwoQGhostHit == TwoQStep /\ trace[pos] \in Range(before.A1out)

TwoQUnseenMiss == TwoQStep /\ trace[pos] \notin TwoQDirectory(before)

\* C31: a 2Q access to a page in A1out removes it from A1out and inserts it at
\* the MRU end of Am; if Am was full, the LRU page of Am is removed first and
\* recorded in no list; A1in is unchanged and the rest of A1out keeps its order.
C31_TwoQGhostPromotion ==
    TwoQGhostHit =>
        /\ ~outcomes[pos]
        /\ Len(before.Am) <= before.size_am
        /\ cache.A1in = before.A1in
        /\ cache.A1out = Without(before.A1out, trace[pos])
        /\ Len(cache.A1out) = Len(before.A1out) - 1
        /\ IF Len(before.Am) = before.size_am
           THEN /\ cache.Am = Append(Tail(before.Am), trace[pos])
                /\ Head(before.Am) \notin TwoQDirectory(cache)
           ELSE cache.Am = Append(before.Am, trace[pos])

\* C31 witness: the page promoted was not the newest of A1out, and a full Am
\* gave up its LRU page.
C31_Witness ==
    /\ TwoQGhostHit
    /\ Len(before.A1out) >= 2
    /\ Last(before.A1out) # trace[pos]
    /\ Len(before.Am) = before.size_am
    /\ Head(before.Am) \notin TwoQDirectory(cache)

\* C32: a 2Q access to an unseen page appends it to A1in; if A1in was full its
\* oldest page is first moved to the tail of A1out, which then loses its
\* oldest page if it exceeds size_out; so |A1in| <= size_in,
\* |A1out| <= size_out and |Am| <= size_am after every access.
C32_TwoQUnseenInsert ==
    /\ cache.kind = "2Q" =>
          /\ Len(cache.A1in) <= cache.size_in
          /\ Len(cache.A1out) <= cache.size_out
          /\ Len(cache.Am) <= cache.size_am
    /\ TwoQUnseenMiss =>
          /\ cache.Am = before.Am
          /\ IF Len(before.A1in) = before.size_in
             THEN /\ cache.A1in = Append(Tail(before.A1in), trace[pos])
                  /\ cache.A1out =
                        IF Len(before.A1out) + 1 > before.size_out
                        THEN Tail(Append(before.A1out, Head(before.A1in)))
                        ELSE Append(before.A1out, Head(before.A1in))
             ELSE /\ cache.A1in = Append(before.A1in, trace[pos])
                  /\ cache.A1out = before.A1out

\* C32 witness: A1in and an A1out of two pages were both full, and A1out lost
\* its oldest page to take the page leaving A1in.
C32_Witness ==
    /\ TwoQUnseenMiss
    /\ Len(before.A1in) = before.size_in
    /\ Len(before.A1out) >= 2
    /\ Len(before.A1out) = before.size_out
    /\ Head(before.A1out) \notin TwoQDirectory(cache)
    /\ Last(cache.A1out) = Head(before.A1in)

\* The hits of a 2Q instance c replaying the trace from its i-th access on.
RECURSIVE TwoQHitsFrom(_, _)
TwoQHitsFrom(c, i) ==
    IF i > Len(trace)
    THEN 0
    ELSE LET r == TwoQAccess(c, trace[i])
         IN  (IF r.hit THEN 1 ELSE 0) + TwoQHitsFrom(r.cache, i + 1)

\* The hit count of a fresh run of the tuning's candidate a over the trace.
CandidateHits(a) ==
    TwoQHitsFrom(TwoQCache(cache_size, <<a>>, <<TWO_Q_A1OUT_FIXED>>), 1)

\* C33: for capacity >= 2 the offline 2Q tuning returns the smallest a1in in
\* 1..min(16, capacity - 1) whose fresh run over the trace, with the fixed
\* A1out size, has the maximum hit count among the candidates, together with
\* the hit rate of that run.
C33_TuneReturnsFirstBest ==
    (tuning.active /\ tuning.returned /\ cache_size >= 2) =>
        LET candidates == 1..Min2(TWO_Q_A1IN_MAX, cache_size - 1)
            best == tuning.best_a1in
        IN  /\ best \in candidates
            /\ \A a \in candidates :
                  /\ CandidateHits(a) <= CandidateHits(best)
                  /\ a < best => CandidateHits(a) < CandidateHits(best)
            /\ tuning.best_hit_rate =
                  [num |-> CandidateHits(best) * 100, den |-> Len(trace)]

\* C33 witness: the tuning returned a candidate other than the first, whose
\* run had hits.
C33_Witness ==
    /\ tuning.active
    /\ tuning.returned
    /\ tuning.best_a1in >= 2
    /\ tuning.best_hit_rate.num > 0

\* C34: for every policy, right after access(k) returns, hit or miss, k is
\* resident, so an immediately repeated access to k is a hit.
C34_AccessedIsResident ==
    Accessed =>
        /\ trace[pos] \in Resident(cache)
        /\ (pos >= 2 /\ trace[pos] = trace[pos - 1]) => outcomes[pos]

\* C34 witness: 2Q at capacity 1 missed on a page and hit it on the access
\* that followed.
C34_Witness ==
    /\ Accessed
    /\ cache.kind = "2Q"
    /\ cache_size = 1
    /\ pos >= 3
    /\ trace[pos] = trace[pos - 1]
    /\ ~outcomes[pos - 1]
    /\ outcomes[pos]

\* C35: for FIFO, LRU, LFU, OPT and ARC an access removes a resident page only
\* if the cache held capacity pages right before it; for ARC, whenever B1 or
\* B2 is non-empty, |T1| + |T2| = capacity.
C35_EvictOnlyWhenFull ==
    /\ (Accessed /\ cache.kind \in {"FIFO", "LRU", "LFU", "OPT", "ARC"}
            /\ Evicted # {}) =>
          Cardinality(Resident(before)) = cache_size
    /\ (cache.kind = "ARC" /\ ARCGhosts(cache) # {}) =>
          Len(cache.T1) + Len(cache.T2) = cache_size

\* C35 witness: an ARC of capacity 2 or more, with ghosts in B1 and B2,
\* evicted a page.
C35_Witness ==
    /\ ARCStep
    /\ cache_size >= 2
    /\ before.B1 # <<>>
    /\ before.B2 # <<>>
    /\ Evicted # {}

\* C36: for every policy a hit leaves the set of resident pages unchanged, and
\* a miss removes at most one resident page and adds exactly the accessed
\* page; so the number of resident pages never decreases over a run.
C36_ResidentFrame ==
    Accessed =>
        /\ outcomes[pos] => Resident(cache) = Resident(before)
        /\ ~outcomes[pos] =>
              /\ Resident(cache) \ Resident(before) = {trace[pos]}
              /\ Cardinality(Evicted) <= 1
        /\ Cardinality(Resident(cache)) >= Cardinality(Resident(before))

\* C36 witness: an LFU miss evicted one of several pages tied at the minimum
\* frequency and kept the others.
C36_Witness ==
    /\ MissedAtCapacity
    /\ cache.kind = "LFU"
    /\ Cardinality(LeastFrequent) >= 2
    /\ Cardinality(Evicted) = 1
    /\ Cardinality(Resident(cache)) = cache_size

\* C37: for ARC, after every access, |T1| + |B1| <= capacity, |B1| <= capacity,
\* |B2| <= capacity and |T1| + |T2| + |B1| + |B2| <= 2 x capacity.
C37_ARCDirectoryBounds ==
    cache.kind = "ARC" =>
        /\ Len(cache.T1) + Len(cache.B1) <= cache_size
        /\ Len(cache.B1) <= cache_size
        /\ Len(cache.B2) <= cache_size
        /\ Len(cache.T1) + Len(cache.T2) + Len(cache.B1) + Len(cache.B2)
              <= 2 * cache_size

\* C37 witness: T1 and B1 together hold capacity pages and the four lists
\* 2 x capacity pages, each list being non-empty.
C37_Witness ==
    /\ cache.kind = "ARC"
    /\ cache.T1 # <<>> /\ cache.T2 # <<>> /\ cache.B1 # <<>> /\ cache.B2 # <<>>
    /\ Len(cache.T1) + Len(cache.B1) = cache_size
    /\ Len(cache.T1) + Len(cache.T2) + Len(cache.B1) + Len(cache.B2)
          = 2 * cache_size

\* C38: replaying one trace through LRU instances of capacity c and c + 1 side
\* by side, after every access the resident set at capacity c is a subset of
\* the resident set at capacity c + 1, so every hit at capacity c is a hit at
\* capacity c + 1.
C38_LRUInclusion ==
    (cache.kind = "LRU" /\ wider # NoCache) =>
        /\ wider.cache.size = cache.size + 1
        /\ Len(wider.outcomes) = Len(outcomes)
        /\ Range(cache.data) \subseteq Range(wider.cache.data)
        /\ \A i \in 1..Len(outcomes) : outcomes[i] => wider.outcomes[i]

\* C38 witness: with both instances full, the latest access missed at capacity
\* c and hit at capacity c + 1.
C38_Witness ==
    /\ cache.kind = "LRU"
    /\ wider # NoCache
    /\ Accessed
    /\ cache_size >= 2
    /\ Len(wider.cache.data) = cache_size + 1
    /\ ~outcomes[pos]
    /\ wider.outcomes[pos]

\* C39: for LFU, after every access each resident page k is in exactly one
\* frequency bucket, bucket[key_freq[k]], no bucket holds a non-resident page,
\* no stored bucket is empty, and key_freq[k] is 1 plus the number of hits on
\* k since it was last inserted (the frequency is forgotten on eviction).
C39_LFUBuckets ==
    cache.kind = "LFU" =>
        /\ \A k \in DOMAIN cache.key_freq :
              /\ cache.key_freq[k] \in DOMAIN cache.freq_keys
              /\ \A f \in DOMAIN cache.freq_keys :
                    k \in Range(cache.freq_keys[f]) <=> f = cache.key_freq[k]
              /\ cache.key_freq[k] = FreqAt(k, pos)
        /\ \A f \in DOMAIN cache.freq_keys :
              /\ cache.freq_keys[f] # <<>>
              /\ NoDuplicates(cache.freq_keys[f])
              /\ Range(cache.freq_keys[f]) \subseteq DOMAIN cache.key_freq

\* C39 witness: a page accessed three times or more is resident at frequency
\* 1, its earlier frequency lost when it was evicted, next to a page of
\* higher frequency.
C39_Witness ==
    /\ cache.kind = "LFU"
    /\ Accessed
    /\ \E k \in DOMAIN cache.key_freq :
          /\ cache.key_freq[k] = 1
          /\ Cardinality({i \in 1..pos : trace[i] = k}) >= 3
          /\ \E i \in 1..pos : trace[i] = k /\ outcomes[i]
    /\ \E k \in DOMAIN cache.key_freq : cache.key_freq[k] >= 2

====
